---- MODULE Spec2Model ----
(***************************************************************************)
(* Ledger core of accounted-app: journals, journal lines, periods, the     *)
(* posting pipeline, the reversal protocol and the hash chain.             *)
(*                                                                         *)
(* A service call is a sequence of steps; a step is one repository call    *)
(* (one database statement or one database transaction) followed by the    *)
(* pure code that runs until the next repository call.  Calls of           *)
(* different request handlers interleave at these steps.                   *)
(*                                                                         *)
(* Conventions: an undefined/NULL string is "", an undefined/NULL id or    *)
(* timestamp is 0 (the code tests these values with `x ? .. : ..`,         *)
(* `x || ''` and `if (x)`).  Amounts are whole currency units; they are    *)
(* rendered with four fractional digits where the code renders them.       *)
(* created_at/updated_at and the stored total columns are not kept: no     *)
(* code path reads them back.                                              *)
(***************************************************************************)
EXTENDS Integers, Sequences, FiniteSets, TLC

\* ------------------------------------------------------------------------
\* Bounds
\* ------------------------------------------------------------------------
\* journal ids that can be generated (createDraft and reverse draw from them)
MaxJournals == 4
\* the wall clock counts 1..MaxClock; two reads may return the same instant
MaxClock == 2
\* service calls started in one behaviour
MaxCalls == 4
\* service calls started in one behaviour that posts and reverses one journal
MaxReverseCalls == 5
\* service calls started in one behaviour that also creates drafts
MaxUniqueCalls == 3
\* calls started in a run that rewrites lines
MaxLineCalls == 2
\* calls started in a run of two organizations
MaxTenantCalls == 2
\* journals stored when the next journal number is asked for
MaxNumbered == 3

Procs == {1, 2}
HelperProcs == {3}
\* a request handler serving the second organization
TenantProcs == {4}
AllProcs == Procs \cup HelperProcs \cup TenantProcs

Org == "o1"
OtherOrg == "o2"
\* the organizationId the calls of handler p carry
OrgOf(p) == IF p \in TenantProcs THEN OtherOrg ELSE Org
User == "u1"
PeriodIds == {1, 2}
NewPeriodIds == {3, 4}
\* [start, end] of a period to create: free, touching period 2, empty
PeriodIntervals == {<<5, 6>>, <<4, 5>>, <<5, 5>>}
Dates == {2, 3}
BaseNumbers == <<"A", "B">>
Numbers == {"A", "A-REV"}
NewNumbers == {"B", "A-REV"}
ExtUids == {"", "x"}
LineChoices == {"bal", "unbal"}

VARIABLES
  journals,      \* table journals: id -> row
  journalLines,  \* table journal_lines: journal id -> rows ordered by line_number
  periods,       \* table periods: id -> row
  clock,         \* wall clock read by `new Date()`
  nextId,        \* next journal id the id generator hands out
  budget,        \* number of service calls that may still be started
  calls          \* per request handler: the call in progress and its locals

vars == <<journals, journalLines, periods, clock, nextId, budget, calls>>

\* ------------------------------------------------------------------------
\* Values
\* ------------------------------------------------------------------------
\* amounts are counted in the smallest amount Money accepts (four decimal
\* places), rates in ten-millionths: one decimal place more than the column
\* exchange_rate keeps
AmountOne == 10000
RateOne == 10000000
\* one millionth, the scale of decimal(18,6), in rate units
RateStep == 10
\* Money.create('0.0001', currency)
Tolerance == 1

MkLine(n, acct, desc, debit, credit) ==
  [lineNumber |-> n, accountId |-> acct, description |-> desc,
   debitAmount |-> debit, creditAmount |-> credit,
   originalCurrency |-> "EUR",
   originalAmount |-> IF debit # 0 THEN debit ELSE credit,
   exchangeRate |-> RateOne]

LinesOf(choice) ==
  IF choice = "bal"
    THEN << MkLine(1, "1000", "cash", 1, 0), MkLine(2, "4000", "rev", 0, 1) >>
    ELSE << MkLine(1, "1000", "cash", 2, 0), MkLine(2, "4000", "rev", 0, 1) >>

NoJournal ==
  [id |-> 0, organizationId |-> "", periodId |-> 0, journalNumber |-> "",
   description |-> "", reference |-> "", postingDate |-> 0, status |-> "none",
   currency |-> "", lines |-> << >>, hashPrev |-> "", hashSelf |-> "",
   reversalJournalId |-> 0, originalJournalId |-> 0, extUid |-> "",
   createdBy |-> "", postedBy |-> "", postedAt |-> 0]

RowFields ==
  {"organizationId", "periodId", "journalNumber", "description", "reference",
   "postingDate", "status", "currency", "hashPrev", "hashSelf",
   "reversalJournalId", "originalJournalId", "extUid", "createdBy",
   "postedBy", "postedAt"}

Ok(v) == [ok |-> TRUE, code |-> "ok", value |-> v]
Fail(c) == [ok |-> FALSE, code |-> c, value |-> NoJournal]

\* ------------------------------------------------------------------------
\* Money and journal lines
\* ------------------------------------------------------------------------
RECURSIVE SumDebit(_), SumCredit(_)
SumDebit(ls) == IF ls = << >> THEN 0 ELSE Head(ls).debitAmount + SumDebit(Tail(ls))
SumCredit(ls) == IF ls = << >> THEN 0 ELSE Head(ls).creditAmount + SumCredit(Tail(ls))

getTotalDebit(j) == SumDebit(j.lines)
getTotalCredit(j) == SumCredit(j.lines)

\* the totals never compared
isBalancedUnchecked(j) == TRUE

isBalanced(j) == getTotalDebit(j) = getTotalCredit(j)

\* the last `width` decimal digits of n
RECURSIVE FixedDigits(_, _)
FixedDigits(n, width) ==
  IF width = 0 THEN "" ELSE FixedDigits(n \div 10, width - 1) \o ToString(n % 10)

\* Decimal.toFixed(4)
AmountString(n) == ToString(n \div AmountOne) \o "." \o FixedDigits(n % AmountOne, 4)
\* decimal(18,6) as the driver returns it; a rate that was never stored keeps
\* its seventh decimal place
RateString(n) ==
  IF n % RateStep = 0
    THEN ToString(n \div RateOne) \o "." \o FixedDigits((n % RateOne) \div RateStep, 6)
    ELSE ToString(n \div RateOne) \o "." \o FixedDigits(n % RateOne, 7)
\* Date.toISOString() of the day `d` of the modelled month
IsoString(d) == "2024-05-0" \o ToString(d) \o "T00:00:00.000Z"

isDebit(l) == l.debitAmount # 0
isCredit(l) == l.creditAmount # 0
getAmount(l) == IF isDebit(l) THEN l.debitAmount ELSE l.creditAmount

\* the conversion never compared
validateExchangeCalculationUnchecked(l) == TRUE

\* |originalAmount * exchangeRate - getAmount()| <= 0.0001, both sides of the
\* comparison multiplied by RateOne
validateExchangeCalculation(l) ==
  LET expected == l.originalAmount * l.exchangeRate
      difference == expected - getAmount(l) * RateOne
  IN  (IF difference < 0 THEN -difference ELSE difference) <= Tolerance * RateOne

\* JournalLine.create throws on a line with no amount or with both amounts
JournalLineCreateOk(l) ==
  /\ ~(l.debitAmount = 0 /\ l.creditAmount = 0)
  /\ ~(l.debitAmount # 0 /\ l.creditAmount # 0)
  /\ l.lineNumber > 0
  /\ l.exchangeRate > 0

\* ------------------------------------------------------------------------
\* Hashing
\* ------------------------------------------------------------------------
RECURSIVE JoinWith(_, _)
JoinWith(parts, sep) ==
  IF parts = << >> THEN ""
  ELSE IF Len(parts) = 1 THEN parts[1]
  ELSE parts[1] \o sep \o JoinWith(Tail(parts), sep)

toHashDataLine(l) ==
  [accountId |-> l.accountId, lineNumber |-> l.lineNumber,
   description |-> l.description,
   debitAmount |-> AmountString(l.debitAmount),
   creditAmount |-> AmountString(l.creditAmount),
   originalCurrency |-> l.originalCurrency,
   originalDebitAmount |-> IF isDebit(l) THEN AmountString(l.originalAmount) ELSE "0.0000",
   originalCreditAmount |-> IF isCredit(l) THEN AmountString(l.originalAmount) ELSE "0.0000",
   exchangeRate |-> RateString(l.exchangeRate),
   taxCode |-> "", taxAmount |-> "0.0000", taxRate |-> "0.0000"]

toHashData(j) ==
  [organizationId |-> j.organizationId, periodId |-> j.periodId,
   journalNumber |-> j.journalNumber, description |-> j.description,
   reference |-> j.reference, postingDate |-> j.postingDate,
   totalDebit |-> AmountString(getTotalDebit(j)),
   totalCredit |-> AmountString(getTotalCredit(j)),
   currency |-> j.currency, hashPrev |-> j.hashPrev,
   lines |-> [i \in 1..Len(j.lines) |-> toHashDataLine(j.lines[i])]]

RECURSIVE InsertByLineNumber(_, _)
InsertByLineNumber(l, sorted) ==
  IF sorted = << >> THEN << l >>
  ELSE IF l.lineNumber < Head(sorted).lineNumber THEN << l >> \o sorted
  ELSE << Head(sorted) >> \o InsertByLineNumber(l, Tail(sorted))

RECURSIVE SortByLineNumber(_)
SortByLineNumber(ls) ==
  IF ls = << >> THEN << >>
  ELSE InsertByLineNumber(Head(ls), SortByLineNumber(Tail(ls)))

serializeLine(l) ==
  JoinWith(<< l.accountId, ToString(l.lineNumber), l.description, l.debitAmount,
              l.creditAmount, l.originalCurrency, l.originalDebitAmount,
              l.originalCreditAmount, l.exchangeRate, l.taxCode,
              IF l.taxAmount = "" THEN "0" ELSE l.taxAmount,
              IF l.taxRate = "" THEN "0" ELSE l.taxRate >>, "|")

serialize(data) ==
  LET sorted == SortByLineNumber(data.lines)
  IN  JoinWith(<< data.organizationId, "p" \o ToString(data.periodId),
                  data.journalNumber, data.description, data.reference,
                  IsoString(data.postingDate), data.totalDebit, data.totalCredit,
                  data.currency, data.hashPrev,
                  JoinWith([i \in 1..Len(sorted) |-> serializeLine(sorted[i])], ";") >>,
               ":")

\* SHA-256 taken as collision free: the digest determines the hashed text
Sha256(text) == "#" \o text

generate(data) == Sha256(serialize(data))
generateWithPrevious(data, previousHash) ==
  generate([data EXCEPT !.hashPrev = previousHash])
verify(hashValue, data) == hashValue = generate(data)

\* ------------------------------------------------------------------------
\* Journal aggregate
\* ------------------------------------------------------------------------
\* the line numbers never looked at
LineNumbersUnchecked(ls) == TRUE

LineNumbersSequential(ls) ==
  LET sorted == SortByLineNumber(ls)
  IN  \A i \in 1..Len(sorted) : sorted[i].lineNumber = i

validateBusinessRules(j) ==
  IF ~isBalanced(j) THEN "UNBALANCED_JOURNAL"
  ELSE IF ~LineNumbersSequential(j.lines) THEN "VALIDATION_FAILED"
  ELSE IF \E i \in 1..Len(j.lines) : ~validateExchangeCalculation(j.lines[i])
    THEN "VALIDATION_FAILED"
  ELSE "ok"

\* Journal.create without its check of props.lines.length
JournalCreateAnyLines(props) ==
  IF props.description = "" THEN Fail("VALIDATION_FAILED")
  ELSE IF props.journalNumber = "" THEN Fail("VALIDATION_FAILED")
  ELSE
    LET journal == [NoJournal EXCEPT
                      !.id = props.id,
                      !.organizationId = props.organizationId,
                      !.periodId = props.periodId,
                      !.journalNumber = props.journalNumber,
                      !.description = props.description,
                      !.reference = props.reference,
                      !.postingDate = props.postingDate,
                      !.status = "draft",
                      !.currency = props.currency,
                      !.lines = props.lines,
                      !.extUid = props.extUid,
                      !.createdBy = props.createdBy]
        validation == validateBusinessRules(journal)
    IN  IF validation # "ok" THEN Fail(validation) ELSE Ok(journal)

\* Journal.create: the constructor call passes undefined for both reversal
\* links, whatever props.originalJournalId holds
JournalCreate(props) ==
  IF props.description = "" THEN Fail("VALIDATION_FAILED")
  ELSE IF props.journalNumber = "" THEN Fail("VALIDATION_FAILED")
  ELSE IF Len(props.lines) = 0 THEN Fail("VALIDATION_FAILED")
  ELSE
    LET journal == [NoJournal EXCEPT
                      !.id = props.id,
                      !.organizationId = props.organizationId,
                      !.periodId = props.periodId,
                      !.journalNumber = props.journalNumber,
                      !.description = props.description,
                      !.reference = props.reference,
                      !.postingDate = props.postingDate,
                      !.status = "draft",
                      !.currency = props.currency,
                      !.lines = props.lines,
                      !.extUid = props.extUid,
                      !.createdBy = props.createdBy]
        validation == validateBusinessRules(journal)
    IN  IF validation # "ok" THEN Fail(validation) ELSE Ok(journal)

JournalPost(j, postedBy, previousHash, now) ==
  IF j.status # "draft" THEN Fail("JOURNAL_ALREADY_POSTED")
  ELSE IF validateBusinessRules(j) # "ok" THEN Fail(validateBusinessRules(j))
  ELSE Ok([j EXCEPT !.status = "posted",
                    !.hashPrev = previousHash,
                    !.hashSelf = generateWithPrevious(toHashData(j), previousHash),
                    !.postedBy = postedBy,
                    !.postedAt = now])

\* the description prefixed, the amounts left as they are
ReversedLineUnswapped(l) ==
  [l EXCEPT !.description = "REVERSAL: " \o l.description]

ReversedLine(l) ==
  [l EXCEPT !.debitAmount = l.creditAmount,
            !.creditAmount = l.debitAmount,
            !.description = "REVERSAL: " \o l.description]

createReversal(j, reversalJournalId, reversalDescription, reversalDate, createdBy) ==
  IF j.status # "posted" THEN Fail("BUSINESS_RULE_VIOLATION")
  ELSE JournalCreate(
         [id |-> reversalJournalId,
          organizationId |-> j.organizationId,
          periodId |-> j.periodId,
          journalNumber |-> j.journalNumber \o "-REV",
          description |-> reversalDescription,
          reference |-> "REV-" \o (IF j.reference # "" THEN j.reference ELSE j.journalNumber),
          postingDate |-> reversalDate,
          currency |-> j.currency,
          lines |-> [i \in 1..Len(j.lines) |-> ReversedLine(j.lines[i])],
          originalJournalId |-> j.id,
          extUid |-> "",
          createdBy |-> createdBy])

\* updates: a record whose "" / 0 / << >> fields mean `not given` (x ?? this.x)
JournalUpdate(j, updates) ==
  IF j.status # "draft" THEN Fail("BUSINESS_RULE_VIOLATION")
  ELSE
    LET updated == [j EXCEPT
                      !.journalNumber = IF updates.journalNumber # "" THEN updates.journalNumber ELSE @,
                      !.description = IF updates.description # "" THEN updates.description ELSE @,
                      !.postingDate = IF updates.postingDate # 0 THEN updates.postingDate ELSE @,
                      !.lines = IF updates.lines # << >> \/ "linesGiven" \in DOMAIN updates
                                 THEN updates.lines ELSE @]
        validation == validateBusinessRules(updated)
    IN  IF validation # "ok" THEN Fail(validation) ELSE Ok(updated)

\* ------------------------------------------------------------------------
\* Period entity
\* ------------------------------------------------------------------------
NoPeriod ==
  [id |-> 0, organizationId |-> "", name |-> "", startDate |-> 0, endDate |-> 0,
   status |-> "none"]

PeriodRowFields == {"organizationId", "name", "startDate", "endDate", "status"}

\* 2 * 365 days
MaxPeriodDays == 730

PeriodCreate(props) ==
  IF props.name = "" THEN [ok |-> FALSE, code |-> "VALIDATION_FAILED", value |-> NoPeriod]
  ELSE IF props.startDate >= props.endDate
    THEN [ok |-> FALSE, code |-> "VALIDATION_FAILED", value |-> NoPeriod]
  ELSE IF props.endDate - props.startDate > MaxPeriodDays
    THEN [ok |-> FALSE, code |-> "VALIDATION_FAILED", value |-> NoPeriod]
  ELSE [ok |-> TRUE, code |-> "ok",
        value |-> [id |-> props.id, organizationId |-> props.organizationId,
                   name |-> props.name, startDate |-> props.startDate,
                   endDate |-> props.endDate, status |-> "open"]]

\* updates: "" / 0 mean `not given` (x ?? this.x)
PeriodUpdate(period, updates) ==
  LET updatedStartDate == IF updates.startDate # 0 THEN updates.startDate ELSE period.startDate
      updatedEndDate == IF updates.endDate # 0 THEN updates.endDate ELSE period.endDate
      updatedName == IF updates.name # "" THEN updates.name ELSE period.name
  IN  IF period.status # "open"
        THEN [ok |-> FALSE, code |-> "BUSINESS_RULE_VIOLATION", value |-> NoPeriod]
      ELSE IF updatedStartDate >= updatedEndDate
        THEN [ok |-> FALSE, code |-> "VALIDATION_FAILED", value |-> NoPeriod]
      ELSE IF updatedName = ""
        THEN [ok |-> FALSE, code |-> "VALIDATION_FAILED", value |-> NoPeriod]
      ELSE [ok |-> TRUE, code |-> "ok",
            value |-> [period EXCEPT !.name = updatedName,
                                     !.startDate = updatedStartDate,
                                     !.endDate = updatedEndDate]]

\* Period.overlapsWith
overlapsWith(period, other) ==
  period.startDate < other.endDate /\ other.startDate < period.endDate

\* only a closed period turned away
allowsPostingWhileClosing(period) == period.status # "closed"

allowsPosting(period) == period.status = "open"
containsDate(period, d) == period.startDate <= d /\ d <= period.endDate

\* close accepts every period that is not closed yet
PeriodTransitionCloseFromOpen(period, kind) ==
  IF kind = "startClosing"
    THEN IF period.status # "open" THEN "BUSINESS_RULE_VIOLATION" ELSE "closing"
  ELSE IF kind = "close"
    THEN IF period.status = "closed" THEN "BUSINESS_RULE_VIOLATION" ELSE "closed"
  ELSE IF period.status # "closing" THEN "BUSINESS_RULE_VIOLATION" ELSE "open"

PeriodTransition(period, kind) ==
  IF kind = "startClosing"
    THEN IF period.status # "open" THEN "BUSINESS_RULE_VIOLATION" ELSE "closing"
  ELSE IF kind = "close"
    THEN IF period.status # "closing" THEN "BUSINESS_RULE_VIOLATION" ELSE "closed"
  ELSE IF period.status # "closing" THEN "BUSINESS_RULE_VIOLATION" ELSE "open"

\* ------------------------------------------------------------------------
\* Journal repository
\* ------------------------------------------------------------------------
\* the journal numbers in the ORDER BY journal_number collation: a base
\* number sorts before the numbers that extend it with "-REV"
NumberTable ==
  [r \in 0..(Len(BaseNumbers) * (MaxJournals + 1) - 1) |->
     JoinWith(<< BaseNumbers[(r \div (MaxJournals + 1)) + 1] >>
                \o [i \in 1..(r % (MaxJournals + 1)) |-> "REV"], "-")]

NumberRank(n) == CHOOSE r \in DOMAIN NumberTable : NumberTable[r] = n

\* Journal.create of the row as mapRowsToJournal calls it, then the entity
\* with the stored status, hashes and links.  The mapper keeps the lines that
\* JournalLine.create returned (it asks each for isSuccess()); a line counts
\* as mapped when JournalLine.create accepts it.
mapRowsToJournal(id, row, lineRows) ==
  IF \E i \in 1..Len(lineRows) : ~JournalLineCreateOk(lineRows[i])
    THEN Fail("MAPPING_FAILED")
  ELSE
    LET created == JournalCreate(
          [id |-> id, organizationId |-> row.organizationId,
           periodId |-> row.periodId, journalNumber |-> row.journalNumber,
           description |-> row.description, reference |-> row.reference,
           postingDate |-> row.postingDate, currency |-> row.currency,
           lines |-> lineRows, originalJournalId |-> row.originalJournalId,
           extUid |-> row.extUid, createdBy |-> row.createdBy])
    IN  IF ~created.ok THEN Fail("MAPPING_FAILED")
        ELSE Ok([f \in DOMAIN NoJournal |->
                   IF f = "id" THEN id
                   ELSE IF f = "lines" THEN lineRows
                   ELSE row[f]])

\* Result<Journal | null>: code "null" stands for success(null)
findById(js, ls, journalId, organizationId) ==
  IF journalId \in DOMAIN js /\ js[journalId].organizationId = organizationId
    THEN mapRowsToJournal(journalId, js[journalId], ls[journalId])
    ELSE [ok |-> TRUE, code |-> "null", value |-> NoJournal]

existsByJournalNumber(js, journalNumber, organizationId) ==
  \E i \in DOMAIN js :
    js[i].journalNumber = journalNumber /\ js[i].organizationId = organizationId

existsByExtUid(js, extUid, organizationId) ==
  \E i \in DOMAIN js :
    js[i].extUid = extUid /\ js[i].organizationId = organizationId

\* ORDER BY posted_at, journal_number
ChainBefore(js, a, b) ==
  \/ js[a].postedAt < js[b].postedAt
  \/ /\ js[a].postedAt = js[b].postedAt
     /\ NumberRank(js[a].journalNumber) < NumberRank(js[b].journalNumber)

\* the posted journals of every organization
PostedIdsOfAll(js, organizationId) ==
  {i \in DOMAIN js : js[i].status = "posted"}

PostedIds(js, organizationId) ==
  {i \in DOMAIN js : js[i].organizationId = organizationId /\ js[i].status = "posted"}

RECURSIVE SortChain(_, _)
SortChain(js, ids) ==
  IF ids = {} THEN << >>
  ELSE LET first == CHOOSE a \in ids : \A b \in ids \ {a} : ChainBefore(js, a, b)
       IN  << first >> \o SortChain(js, ids \ {first})

\* WHERE status = 'posted' ORDER BY posted_at DESC, journal_number DESC LIMIT 1
findLastPostedJournal(js, ls, organizationId) ==
  LET ids == PostedIds(js, organizationId)
  IN  IF ids = {} THEN [ok |-> TRUE, code |-> "null", value |-> NoJournal]
      ELSE LET last == CHOOSE a \in ids : \A b \in ids \ {a} : ChainBefore(js, b, a)
           IN  mapRowsToJournal(last, js[last], ls[last])

\* WHERE status = 'posted' ORDER BY posted_at, journal_number; the result is
\* the sequence of mapping results
findPostedJournalsChronological(js, ls, organizationId) ==
  LET order == SortChain(js, PostedIds(js, organizationId))
  IN  [i \in 1..Len(order) |-> mapRowsToJournal(order[i], js[order[i]], ls[order[i]])]

\* ---- journal numbers as texts ----
\* a journal number spelled out as the sequence of its characters
DigitChars == << "0", "1", "2", "3", "4", "5", "6", "7", "8", "9" >>
IsDigit(ch) == \E i \in DOMAIN DigitChars : DigitChars[i] = ch
DigitValue(ch) == (CHOOSE i \in DOMAIN DigitChars : DigitChars[i] = ch) - 1

\* the code points of the characters the numbers are written with
CharCode(ch) ==
  IF ch = "-" THEN 45
  ELSE IF IsDigit(ch) THEN 48 + DigitValue(ch)
  ELSE IF ch = "E" THEN 69
  ELSE IF ch = "P" THEN 80
  ELSE IF ch = "Q" THEN 81
  ELSE IF ch = "R" THEN 82
  ELSE 86

TextOf(chars) == JoinWith(chars, "")

\* the numbers a ledger may hold when the next number is asked for
StoredNumberChoices ==
  { << "P", "-", "0", "0", "1" >>, << "P", "-", "0", "0", "2" >>,
    << "P", "-", "0", "1", "0" >>, << "P", "-", "9", "9", "9" >>,
    << "P", "-", "1", "0", "0", "0" >>,
    << "P", "-", "0", "0", "1", "-", "R", "E", "V" >>,
    << "P", "-", "0", "0", "2", "-", "R", "E", "V" >>,
    << "Q", "-", "0", "0", "5" >> }

CharsOf(text) == CHOOSE chars \in StoredNumberChoices : TextOf(chars) = text

\* ORDER BY journal_number: character by character, a prefix before its
\* extensions
RECURSIVE TextLess(_, _)
TextLess(a, b) ==
  IF b = << >> THEN FALSE
  ELSE IF a = << >> THEN TRUE
  ELSE IF Head(a) = Head(b) THEN TextLess(Tail(a), Tail(b))
  ELSE CharCode(Head(a)) < CharCode(Head(b))

\* LIKE 'start%'
Like(chars, start) ==
  Len(chars) >= Len(start) /\ SubSeq(chars, 1, Len(start)) = start

RECURSIVE TrailingDigits(_)
TrailingDigits(chars) ==
  IF chars = << >> \/ ~IsDigit(chars[Len(chars)]) THEN << >>
  ELSE TrailingDigits(SubSeq(chars, 1, Len(chars) - 1)) \o << chars[Len(chars)] >>

\* lastNumber.match(/-(\d+)$/): the digits captured, << >> when no match
MatchTrailingNumber(chars) ==
  LET digits == TrailingDigits(chars)
      before == Len(chars) - Len(digits)
  IN  IF digits # << >> /\ before >= 1 /\ chars[before] = "-" THEN digits ELSE << >>

RECURSIVE parseInt(_)
parseInt(digits) ==
  IF digits = << >> THEN 0
  ELSE 10 * parseInt(SubSeq(digits, 1, Len(digits) - 1)) + DigitValue(digits[Len(digits)])

RECURSIVE NumberToString(_)
NumberToString(n) ==
  IF n < 10 THEN << DigitChars[n + 1] >>
  ELSE NumberToString(n \div 10) \o << DigitChars[(n % 10) + 1] >>

RECURSIVE padStart(_, _, _)
padStart(chars, targetLength, padChar) ==
  IF Len(chars) >= targetLength THEN chars
  ELSE padStart(<< padChar >> \o chars, targetLength, padChar)

\* ORDER BY journal_number DESC LIMIT 1
LastNumber(texts) == CHOOSE a \in texts : \A b \in texts \ {a} : TextLess(b, a)

\* DrizzleJournalRepository.getNextJournalNumber with a prefix given
getNextJournalNumber(js, organizationId, prefix) ==
  LET matching == {CharsOf(js[i].journalNumber) :
                     i \in {k \in DOMAIN js :
                              /\ js[k].organizationId = organizationId
                              /\ Like(CharsOf(js[k].journalNumber), prefix \o << "-" >>)}}
      first == TextOf(prefix \o << "-", "0", "0", "1" >>)
  IN  IF matching = {} THEN first
      ELSE LET matched == MatchTrailingNumber(LastNumber(matching))
           IN  IF matched = << >> THEN first
               ELSE TextOf(prefix \o << "-" >>
                             \o padStart(NumberToString(parseInt(matched) + 1), 3, "0"))

\* a journals table without the two unique constraints
NoUniqueConstraint(js, id, row) == FALSE

\* unique (organization_id, journal_number) and (organization_id, ext_uid);
\* NULL ext_uids never collide
UniqueViolation(js, id, row) ==
  \E i \in DOMAIN js \ {id} :
    /\ js[i].organizationId = row.organizationId
    /\ \/ js[i].journalNumber = row.journalNumber
       \/ (row.extUid # "" /\ js[i].extUid = row.extUid)

RowOf(j) == [f \in RowFields |-> j[f]]

\* UPDATE .. SET: the query builder leaves out the columns whose value is
\* undefined; organization_id, period_id and created_by are not in the SET
UpdatedRow(old, j) ==
  [f \in RowFields |->
     IF f \in {"organizationId", "periodId", "createdBy"} THEN old[f]
     ELSE IF f \in {"reference", "hashPrev", "hashSelf", "extUid", "postedBy"} /\ j[f] = ""
       THEN old[f]
     ELSE IF f \in {"reversalJournalId", "originalJournalId", "postedAt"} /\ j[f] = 0
       THEN old[f]
     ELSE j[f]]

\* DrizzleJournalRepository.save: one transaction; an exception rolls it back
\* a value written to the column exchange_rate, decimal(18,6): rounded to the
\* nearest millionth, a tie going up
RoundRate(rate) == ((rate + RateStep \div 2) \div RateStep) * RateStep

\* the row of journal_lines written for a line
LineRow(l) == [l EXCEPT !.exchangeRate = RoundRate(l.exchangeRate)]

\* the statements save runs inside its transaction: the row it writes, the
\* line rows it inserts, the journal it maps back, and whether one of them is
\* refused
saveStatements(js, ls, ps, j) ==
  LET isUpdate == j.id \in DOMAIN js /\ js[j.id].organizationId = j.organizationId
      row == IF isUpdate THEN UpdatedRow(js[j.id], j) ELSE RowOf(j)
      failed == \/ UniqueViolation(js, j.id, row)
                \/ (~isUpdate /\ j.id \in DOMAIN js)
                \/ (~isUpdate /\ row.periodId \notin DOMAIN ps)
                \/ \E k, m \in 1..Len(j.lines) :
                     k # m /\ j.lines[k].lineNumber = j.lines[m].lineNumber
      stored == SortByLineNumber([i \in 1..Len(j.lines) |-> LineRow(j.lines[i])])
      mapped == mapRowsToJournal(j.id, row, stored)
  IN  [refused |-> failed \/ ~mapped.ok, row |-> row, stored |-> stored,
       mapped |-> mapped]

\* save without its transaction: the journal row stays written when a
\* statement is refused
saveWithoutRollback(js, ls, ps, j) ==
  LET s == saveStatements(js, ls, ps, j)
  IN  IF s.refused
        THEN [ok |-> FALSE, code |-> "DB_ERROR", value |-> NoJournal,
              journals |-> (j.id :> s.row) @@ js, journalLines |-> ls]
        ELSE [ok |-> TRUE, code |-> "ok", value |-> s.mapped.value,
              journals |-> (j.id :> s.row) @@ js,
              journalLines |-> [ls EXCEPT ![j.id] = s.stored]]

save(js, ls, ps, j) ==
  LET s == saveStatements(js, ls, ps, j)
  IN  IF s.refused
        THEN [ok |-> FALSE, code |-> "DB_ERROR", value |-> NoJournal,
              journals |-> js, journalLines |-> ls]
        ELSE [ok |-> TRUE, code |-> "ok", value |-> s.mapped.value,
              journals |-> (j.id :> s.row) @@ js,
              journalLines |-> [ls EXCEPT ![j.id] = s.stored]]

\* DrizzleJournalRepository.delete: the lines go whatever the status is, the
\* journal row only WHERE status = 'draft'
delete(js, ls, journalId, organizationId) ==
  LET removesRow == /\ journalId \in DOMAIN js
                    /\ js[journalId].organizationId = organizationId
                    /\ js[journalId].status = "draft"
      cleared == [ls EXCEPT ![journalId] = << >>]
  IN  [journals |-> IF removesRow
                      THEN [i \in DOMAIN js \ {journalId} |-> js[i]]
                      ELSE js,
       journalLines |-> cleared]

\* ------------------------------------------------------------------------
\* Hash service
\* ------------------------------------------------------------------------
getPreviousHash(js, ls, organizationId) ==
  LET last == findLastPostedJournal(js, ls, organizationId)
  IN  IF ~last.ok THEN [ok |-> FALSE, code |-> last.code, hash |-> ""]
      ELSE IF last.code = "null" THEN [ok |-> TRUE, code |-> "ok", hash |-> ""]
      ELSE IF last.value.hashSelf = ""
        THEN [ok |-> FALSE, code |-> "INVALID_HASH_CHAIN", hash |-> ""]
      ELSE [ok |-> TRUE, code |-> "ok", hash |-> last.value.hashSelf]

verifyHashChain(j) ==
  IF j.hashSelf = "" THEN FALSE
  ELSE verify(j.hashSelf, toHashData(j))

\* the walk over findPostedJournalsChronological: a journal that fails its own
\* verification is recorded and skipped (previousHash stays), a broken link
\* ends the walk
RECURSIVE WalkChain(_, _, _, _)
WalkChain(chain, i, previousHash, invalid) ==
  IF i > Len(chain)
    THEN [isValid |-> invalid = {}, totalJournals |-> Len(chain),
          invalidJournals |-> invalid, brokenChainAt |-> 0]
  ELSE
    LET j == chain[i].value
    IN  IF ~verifyHashChain(j)
          THEN WalkChain(chain, i + 1, previousHash, invalid \cup {j.id})
        ELSE IF (i = 1 /\ j.hashPrev # "")
                \/ (i > 1 /\ (j.hashPrev = "" \/ previousHash = ""
                                \/ j.hashPrev # previousHash))
          THEN [isValid |-> FALSE, totalJournals |-> Len(chain),
                invalidJournals |-> invalid, brokenChainAt |-> j.id]
        ELSE WalkChain(chain, i + 1, j.hashSelf, invalid)

verifyOrganizationHashChain(js, ls, organizationId) ==
  LET chain == findPostedJournalsChronological(js, ls, organizationId)
  IN  IF \E i \in 1..Len(chain) : ~chain[i].ok
        THEN [ok |-> FALSE, isValid |-> FALSE, totalJournals |-> 0,
              invalidJournals |-> {}, brokenChainAt |-> 0]
        ELSE [ok |-> TRUE] @@ WalkChain(chain, 1, "", {})

\* ------------------------------------------------------------------------
\* Period repository
\* ------------------------------------------------------------------------
\* Period.create of the row, then the entity with the stored status
mapRowToPeriod(id, row) ==
  LET created == PeriodCreate([id |-> id, organizationId |-> row.organizationId,
                               name |-> row.name, startDate |-> row.startDate,
                               endDate |-> row.endDate])
  IN  IF ~created.ok THEN [ok |-> FALSE, code |-> "DB_ERROR", value |-> NoPeriod]
      ELSE [ok |-> TRUE, code |-> "ok",
            value |-> [created.value EXCEPT !.status = row.status]]

\* Result<Period | null>: code "null" stands for success(null)
findPeriodById(ps, periodId, organizationId) ==
  IF periodId \in DOMAIN ps /\ ps[periodId].organizationId = organizationId
    THEN mapRowToPeriod(periodId, ps[periodId])
    ELSE [ok |-> TRUE, code |-> "null", value |-> NoPeriod]

\* start_date < endDate AND end_date > startDate
findOverlappingPeriodsOpen(ps, startDate, endDate, organizationId, excludePeriodId) ==
  {i \in DOMAIN ps :
     /\ ps[i].organizationId = organizationId
     /\ ps[i].startDate < endDate
     /\ ps[i].endDate > startDate
     /\ (excludePeriodId # 0 => i # excludePeriodId)}

\* start_date <= endDate AND end_date >= startDate, without the excluded id
\* (0: none excluded)
findOverlappingPeriods(ps, startDate, endDate, organizationId, excludePeriodId) ==
  {i \in DOMAIN ps :
     /\ ps[i].organizationId = organizationId
     /\ ps[i].startDate <= endDate
     /\ ps[i].endDate >= startDate
     /\ (excludePeriodId # 0 => i # excludePeriodId)}

\* the DELETE of the repository alone, without the foreign key of the journals
deletePeriodUnreferenced(ps, js, periodId, organizationId) ==
  [ok |-> TRUE, code |-> "ok",
   periods |-> [i \in {k \in DOMAIN ps :
                         ~(k = periodId /\ ps[k].organizationId = organizationId)}
                  |-> ps[i]]]

\* DrizzlePeriodRepository.delete: DELETE WHERE id and organization; the
\* foreign key journals.period_id -> periods.id (ON DELETE no action) makes the
\* statement fail while a journal row names the period
deletePeriod(ps, js, periodId, organizationId) ==
  IF /\ periodId \in DOMAIN ps
     /\ ps[periodId].organizationId = organizationId
     /\ \E i \in DOMAIN js : js[i].periodId = periodId
    THEN [ok |-> FALSE, code |-> "DB_ERROR", periods |-> ps]
    ELSE [ok |-> TRUE, code |-> "ok",
          periods |-> [i \in {k \in DOMAIN ps :
                                ~(k = periodId /\ ps[k].organizationId = organizationId)}
                         |-> ps[i]]]

\* PeriodService.validatePeriodForPosting: the error code, or "ok"
validatePeriodForPosting(ps, periodId, organizationId) ==
  LET found == findPeriodById(ps, periodId, organizationId)
  IN  IF ~found.ok THEN found.code
      ELSE IF found.code = "null" THEN "ENTITY_NOT_FOUND"
      ELSE IF ~allowsPosting(found.value) THEN "PERIOD_CLOSED"
      ELSE "ok"

\* DrizzlePeriodRepository.save: UPDATE name, dates and status WHERE id and
\* organization, whatever the stored row holds; INSERT when no row matched
savePeriod(ps, period) ==
  IF period.id \in DOMAIN ps /\ ps[period.id].organizationId = period.organizationId
    THEN [ps EXCEPT ![period.id] =
            [f \in PeriodRowFields |->
               IF f = "organizationId" THEN ps[period.id][f] ELSE period[f]]]
    ELSE (period.id :> [f \in PeriodRowFields |-> period[f]]) @@ ps

\* ------------------------------------------------------------------------
\* Request handlers
\* ------------------------------------------------------------------------
NoPeriodUpdates == [name |-> "", startDate |-> 0, endDate |-> 0]

\* rename; move to [4, 5]; end on day 1
PeriodUpdateChoices ==
  {[NoPeriodUpdates EXCEPT !.name = "q"],
   [NoPeriodUpdates EXCEPT !.startDate = 4, !.endDate = 5],
   [NoPeriodUpdates EXCEPT !.endDate = 1]}

NoUpdates == [journalNumber |-> "", description |-> "", postingDate |-> 0, lines |-> << >>]

UpdateChoices ==
  {[NoUpdates EXCEPT !.journalNumber = n] : n \in NewNumbers}
    \cup {[NoUpdates EXCEPT !.description = "e"]}
    \cup {[NoUpdates EXCEPT !.postingDate = 1]}

IdleCall ==
  [op |-> "none", pc |-> "idle", jid |-> 0, journal |-> NoJournal,
   updates |-> NoUpdates, reversal |-> NoJournal, rid |-> 0, date |-> 0,
   period |-> NoPeriod, conflicts |-> {}, result |-> ""]

Free(p) == calls[p].pc \in {"idle", "done"}

Goto(p, c) == calls' = [calls EXCEPT ![p] = c]

\* the call of p returns `code`; only the outcome is kept
Return(p, op, jid, rid, code) ==
  calls' = [calls EXCEPT ![p] =
              [IdleCall EXCEPT !.op = op, !.pc = "done", !.jid = jid,
                               !.rid = rid, !.result = code]]

CanStart(p) == Free(p) /\ budget > 0

\* ---- JournalService.createDraftJournal ----
CreateDraftValidatePeriodFrom(p, lineSets) ==
  /\ CanStart(p)
  /\ nextId <= MaxJournals
  /\ \E pid \in PeriodIds, d \in Dates, n \in Numbers, x \in ExtUids, lines \in lineSets :
       LET props == [NoJournal EXCEPT
                       !.id = nextId, !.organizationId = OrgOf(p), !.periodId = pid,
                       !.journalNumber = n, !.description = "d",
                       !.postingDate = d, !.currency = "EUR",
                       !.lines = lines, !.extUid = x, !.createdBy = User]
           validation == validatePeriodForPosting(periods, pid, OrgOf(p))
       IN  IF validation # "ok"
             THEN Return(p, "createDraft", nextId, 0, validation)
           ELSE IF ~containsDate(periods[pid], d)
             THEN Return(p, "createDraft", nextId, 0, "VALIDATION_FAILED")
           ELSE Goto(p, [IdleCall EXCEPT !.op = "createDraft", !.pc = "cd_number",
                                         !.jid = nextId, !.journal = props])
  /\ nextId' = nextId + 1
  /\ budget' = budget - 1
  /\ UNCHANGED <<journals, journalLines, periods, clock>>

CreateDraftValidatePeriod(p) ==
  CreateDraftValidatePeriodFrom(p, {LinesOf(lc) : lc \in LineChoices})

\* Journal.create and the hand-over to save, after the last uniqueness check
CreateDraftBuild(p) ==
  LET c == calls[p]
      created == JournalCreate(c.journal)
  IN  IF ~created.ok
        THEN Return(p, c.op, c.jid, 0, created.code)
        ELSE Goto(p, [c EXCEPT !.pc = "cd_save", !.journal = created.value])

CreateDraftCheckNumber(p) ==
  LET c == calls[p] IN
  /\ c.pc = "cd_number"
  /\ IF existsByJournalNumber(journals, c.journal.journalNumber, c.journal.organizationId)
       THEN Return(p, c.op, c.jid, 0, "BUSINESS_RULE_VIOLATION")
     ELSE IF c.journal.extUid # ""
       THEN Goto(p, [c EXCEPT !.pc = "cd_extuid"])
     ELSE CreateDraftBuild(p)
  /\ UNCHANGED <<journals, journalLines, periods, clock, nextId, budget>>

CreateDraftCheckExtUid(p) ==
  LET c == calls[p] IN
  /\ c.pc = "cd_extuid"
  /\ IF existsByExtUid(journals, c.journal.extUid, c.journal.organizationId)
       THEN Return(p, c.op, c.jid, 0, "BUSINESS_RULE_VIOLATION")
       ELSE CreateDraftBuild(p)
  /\ UNCHANGED <<journals, journalLines, periods, clock, nextId, budget>>

\* the last step of createDraft, updateDraft and post: journalRepository.save
SaveStep(p, label) ==
  LET c == calls[p]
      r == save(journals, journalLines, periods, c.journal)
  IN
  /\ c.pc = label
  /\ journals' = r.journals
  /\ journalLines' = r.journalLines
  /\ Return(p, c.op, c.jid, 0, r.code)
  /\ UNCHANGED <<periods, clock, nextId, budget>>

CreateDraftSave(p) == SaveStep(p, "cd_save")

\* ---- JournalService.updateDraftJournal ----
UpdateDraftBuild(p, c) ==
  LET updated == JournalUpdate(c.journal, c.updates)
  IN  IF ~updated.ok
        THEN Return(p, c.op, c.jid, 0, updated.code)
        ELSE Goto(p, [c EXCEPT !.pc = "ud_save", !.journal = updated.value])

\* the call up to its first repository answer, for an update drawn from `choices`
UpdateDraftFindFrom(p, choices) ==
  /\ CanStart(p)
  /\ \E id \in 1..(nextId - 1), u \in choices :
       LET found == findById(journals, journalLines, id, OrgOf(p))
           c == [IdleCall EXCEPT !.op = "updateDraft", !.jid = id,
                                 !.journal = found.value, !.updates = u]
       IN  IF ~found.ok THEN Return(p, "updateDraft", id, 0, found.code)
           ELSE IF found.code = "null" THEN Return(p, "updateDraft", id, 0, "ENTITY_NOT_FOUND")
           ELSE IF found.value.status # "draft"
             THEN Return(p, "updateDraft", id, 0, "BUSINESS_RULE_VIOLATION")
           ELSE IF u.postingDate # 0 THEN Goto(p, [c EXCEPT !.pc = "ud_period"])
           ELSE IF u.journalNumber # "" /\ u.journalNumber # found.value.journalNumber
             THEN Goto(p, [c EXCEPT !.pc = "ud_number"])
           ELSE UpdateDraftBuild(p, c)
  /\ budget' = budget - 1
  /\ UNCHANGED <<journals, journalLines, periods, clock, nextId>>

UpdateDraftFind(p) == UpdateDraftFindFrom(p, UpdateChoices)

UpdateDraftCheckNumber(p) ==
  LET c == calls[p] IN
  /\ c.pc = "ud_number"
  /\ IF existsByJournalNumber(journals, c.updates.journalNumber, OrgOf(p))
       THEN Return(p, c.op, c.jid, 0, "BUSINESS_RULE_VIOLATION")
       ELSE UpdateDraftBuild(p, c)
  /\ UNCHANGED <<journals, journalLines, periods, clock, nextId, budget>>

UpdateDraftCheckPeriod(p) ==
  LET c == calls[p]
      pid == c.journal.periodId
      validation == validatePeriodForPosting(periods, pid, OrgOf(p))
  IN
  /\ c.pc = "ud_period"
  /\ IF validation # "ok"
       THEN Return(p, c.op, c.jid, 0, validation)
     ELSE IF ~containsDate(periods[pid], c.updates.postingDate)
       THEN Return(p, c.op, c.jid, 0, "VALIDATION_FAILED")
     ELSE IF c.updates.journalNumber # "" /\ c.updates.journalNumber # c.journal.journalNumber
       THEN Goto(p, [c EXCEPT !.pc = "ud_number"])
     ELSE UpdateDraftBuild(p, c)
  /\ UNCHANGED <<journals, journalLines, periods, clock, nextId, budget>>

UpdateDraftSave(p) == SaveStep(p, "ud_save")

\* ---- JournalService.deleteDraftJournal ----
DeleteDraftFind(p) ==
  /\ CanStart(p)
  /\ \E id \in 1..(nextId - 1) :
       LET found == findById(journals, journalLines, id, OrgOf(p))
       IN  IF ~found.ok THEN Return(p, "deleteDraft", id, 0, found.code)
           ELSE IF found.code = "null" THEN Return(p, "deleteDraft", id, 0, "ENTITY_NOT_FOUND")
           ELSE IF found.value.status # "draft"
             THEN Return(p, "deleteDraft", id, 0, "BUSINESS_RULE_VIOLATION")
           ELSE Goto(p, [IdleCall EXCEPT !.op = "deleteDraft", !.pc = "dd_delete", !.jid = id])
  /\ budget' = budget - 1
  /\ UNCHANGED <<journals, journalLines, periods, clock, nextId>>

DeleteDraftDelete(p) ==
  LET c == calls[p]
      r == delete(journals, journalLines, c.jid, OrgOf(p))
  IN
  /\ c.pc = "dd_delete"
  /\ journals' = r.journals
  /\ journalLines' = r.journalLines
  /\ Return(p, c.op, c.jid, 0, "ok")
  /\ UNCHANGED <<periods, clock, nextId, budget>>

\* ---- PostingService.postJournal ----
PostFind(p) ==
  /\ CanStart(p)
  /\ \E id \in 1..(nextId - 1) :
       LET found == findById(journals, journalLines, id, OrgOf(p))
           j == found.value
       IN  IF ~found.ok THEN Return(p, "post", id, 0, found.code)
           ELSE IF found.code = "null" THEN Return(p, "post", id, 0, "ENTITY_NOT_FOUND")
           ELSE IF j.status # "draft" THEN Return(p, "post", id, 0, "BUSINESS_RULE_VIOLATION")
           ELSE IF ~isBalanced(j) THEN Return(p, "post", id, 0, "UNBALANCED_JOURNAL")
           ELSE IF Len(j.lines) = 0 THEN Return(p, "post", id, 0, "VALIDATION_FAILED")
           ELSE Goto(p, [IdleCall EXCEPT !.op = "post", !.pc = "po_number",
                                         !.jid = id, !.journal = j])
  /\ budget' = budget - 1
  /\ UNCHANGED <<journals, journalLines, periods, clock, nextId>>

PostCheckNumber(p) ==
  LET c == calls[p] IN
  /\ c.pc = "po_number"
  /\ IF existsByJournalNumber(journals, c.journal.journalNumber, c.journal.organizationId)
       THEN Return(p, c.op, c.jid, 0, "BUSINESS_RULE_VIOLATION")
     ELSE IF c.journal.extUid # ""
       THEN Goto(p, [c EXCEPT !.pc = "po_extuid"])
     ELSE Goto(p, [c EXCEPT !.pc = "po_period"])
  /\ UNCHANGED <<journals, journalLines, periods, clock, nextId, budget>>

PostCheckExtUid(p) ==
  LET c == calls[p] IN
  /\ c.pc = "po_extuid"
  /\ IF existsByExtUid(journals, c.journal.extUid, c.journal.organizationId)
       THEN Return(p, c.op, c.jid, 0, "BUSINESS_RULE_VIOLATION")
       ELSE Goto(p, [c EXCEPT !.pc = "po_period"])
  /\ UNCHANGED <<journals, journalLines, periods, clock, nextId, budget>>

PostCheckPeriod(p) ==
  LET c == calls[p]
      found == findPeriodById(periods, c.journal.periodId, OrgOf(p))
  IN
  /\ c.pc = "po_period"
  /\ IF ~found.ok THEN Return(p, c.op, c.jid, 0, found.code)
     ELSE IF found.code = "null"
       THEN Return(p, c.op, c.jid, 0, "ENTITY_NOT_FOUND")
     ELSE IF ~allowsPosting(found.value)
       THEN Return(p, c.op, c.jid, 0, "PERIOD_CLOSED")
     ELSE Goto(p, [c EXCEPT !.pc = "po_prevhash"])
  /\ UNCHANGED <<journals, journalLines, periods, clock, nextId, budget>>

PostGetPreviousHash(p) ==
  LET c == calls[p]
      previous == getPreviousHash(journals, journalLines, OrgOf(p))
      posted == JournalPost(c.journal, User, previous.hash, clock)
  IN
  /\ c.pc = "po_prevhash"
  /\ IF ~previous.ok THEN Return(p, c.op, c.jid, 0, previous.code)
     ELSE IF ~posted.ok THEN Return(p, c.op, c.jid, 0, posted.code)
     ELSE Goto(p, [c EXCEPT !.pc = "po_save", !.journal = posted.value])
  /\ UNCHANGED <<journals, journalLines, periods, clock, nextId, budget>>

PostSave(p) == SaveStep(p, "po_save")

\* ---- PostingService.reverseJournal ----
ReversalDescription == "rev"

ReverseFind(p) ==
  /\ CanStart(p)
  /\ \E id \in 1..(nextId - 1), d \in Dates :
       LET found == findById(journals, journalLines, id, OrgOf(p))
           j == found.value
       IN  IF ~found.ok THEN Return(p, "reverse", id, 0, found.code)
           ELSE IF found.code = "null" THEN Return(p, "reverse", id, 0, "ENTITY_NOT_FOUND")
           ELSE IF j.status # "posted" THEN Return(p, "reverse", id, 0, "BUSINESS_RULE_VIOLATION")
           ELSE IF j.reversalJournalId # 0
             THEN Return(p, "reverse", id, 0, "BUSINESS_RULE_VIOLATION")
           ELSE Goto(p, [IdleCall EXCEPT !.op = "reverse", !.pc = "rv_period",
                                         !.jid = id, !.journal = j, !.date = d])
  /\ budget' = budget - 1
  /\ UNCHANGED <<journals, journalLines, periods, clock, nextId>>

\* PeriodRepository.findByDate: a period whose interval holds the date
findByDate(ps, d, organizationId) ==
  {pid \in DOMAIN ps : ps[pid].organizationId = organizationId /\ containsDate(ps[pid], d)}

\* findByDate, then generateJournalId and Journal.createReversal
ReverseCheckPeriod(p) ==
  LET c == calls[p]
      found == findByDate(periods, c.date, OrgOf(p))
  IN
  /\ c.pc = "rv_period"
  /\ IF found = {}
       THEN /\ Return(p, c.op, c.jid, 0, "ENTITY_NOT_FOUND")
            /\ UNCHANGED nextId
     ELSE \E pid \in found :
       IF ~allowsPosting(periods[pid])
         THEN /\ Return(p, c.op, c.jid, 0, "PERIOD_CLOSED")
              /\ UNCHANGED nextId
       ELSE
         /\ nextId <= MaxJournals
         /\ nextId' = nextId + 1
         /\ LET reversal == createReversal(c.journal, nextId, ReversalDescription, c.date, User)
            IN  IF ~reversal.ok
                  THEN Return(p, c.op, c.jid, nextId, reversal.code)
                  ELSE Goto(p, [c EXCEPT !.pc = "rv_prevhash", !.rid = nextId,
                                         !.reversal = reversal.value])
  /\ UNCHANGED <<journals, journalLines, periods, clock, budget>>

\* getPreviousHash, reversalJournal.post and the copy of the original marked
\* reversed
ReverseGetPreviousHash(p) ==
  LET c == calls[p]
      previous == getPreviousHash(journals, journalLines, OrgOf(p))
      posted == JournalPost(c.reversal, User, previous.hash, clock)
      reversedOriginal == [c.journal EXCEPT !.status = "reversed",
                                            !.reversalJournalId = c.rid]
  IN
  /\ c.pc = "rv_prevhash"
  /\ IF ~previous.ok THEN Return(p, c.op, c.jid, c.rid, previous.code)
     ELSE IF ~posted.ok THEN Return(p, c.op, c.jid, c.rid, posted.code)
     ELSE Goto(p, [c EXCEPT !.pc = "rv_save_original", !.journal = reversedOriginal,
                            !.reversal = posted.value])
  /\ UNCHANGED <<journals, journalLines, periods, clock, nextId, budget>>

\* saveMultiple, first element: this.save(reversedOriginal) commits on its own
ReverseSaveOriginal(p) ==
  LET c == calls[p]
      r == save(journals, journalLines, periods, c.journal)
  IN
  /\ c.pc = "rv_save_original"
  /\ journals' = r.journals
  /\ journalLines' = r.journalLines
  /\ IF r.ok THEN Goto(p, [c EXCEPT !.pc = "rv_save_reversal"])
     ELSE Return(p, c.op, c.jid, c.rid, r.code)
  /\ UNCHANGED <<periods, clock, nextId, budget>>

\* saveMultiple, second element: this.save(postedReversal)
ReverseSaveReversal(p) ==
  LET c == calls[p]
      r == save(journals, journalLines, periods, c.reversal)
  IN
  /\ c.pc = "rv_save_reversal"
  /\ journals' = r.journals
  /\ journalLines' = r.journalLines
  /\ Return(p, c.op, c.jid, c.rid, r.code)
  /\ UNCHANGED <<periods, clock, nextId, budget>>

\* ---- PeriodService.startClosingPeriod / closePeriod / reopenPeriod ----
PeriodFind(p) ==
  /\ CanStart(p)
  /\ \E pid \in PeriodIds, kind \in {"startClosing", "close", "reopen"} :
       LET found == findPeriodById(periods, pid, OrgOf(p))
       IN  IF ~found.ok THEN Return(p, kind, pid, 0, found.code)
           ELSE IF found.code = "null" THEN Return(p, kind, pid, 0, "ENTITY_NOT_FOUND")
           ELSE LET target == PeriodTransition(found.value, kind)
                IN  IF target = "BUSINESS_RULE_VIOLATION"
                      THEN Return(p, kind, pid, 0, target)
                      ELSE Goto(p, [IdleCall EXCEPT
                                      !.op = kind, !.pc = "pt_save", !.jid = pid,
                                      !.period = [found.value EXCEPT !.status = target]])
  /\ budget' = budget - 1
  /\ UNCHANGED <<journals, journalLines, periods, clock, nextId>>

\* the last step of a period call: periodRepository.save of the entity built
\* from the copy read earlier
PeriodSaveStep(p, label) ==
  LET c == calls[p] IN
  /\ c.pc = label
  /\ periods' = savePeriod(periods, c.period)
  /\ Return(p, c.op, c.jid, 0,
            IF mapRowToPeriod(c.period.id, savePeriod(periods, c.period)[c.period.id]).ok
              THEN "ok" ELSE "DB_ERROR")
  /\ UNCHANGED <<journals, journalLines, clock, nextId, budget>>

PeriodSave(p) == PeriodSaveStep(p, "pt_save")

\* ---- PeriodService.createPeriod ----
\* the caller supplies the id of the new period; ids are never reused
PeriodIdsInUse == DOMAIN periods \cup {calls[q].period.id : q \in AllProcs}

CreatePeriodFindOverlapping(p) ==
  /\ CanStart(p)
  /\ \E id \in NewPeriodIds \ PeriodIdsInUse, iv \in PeriodIntervals :
       LET created == PeriodCreate([id |-> id, organizationId |-> OrgOf(p), name |-> "n",
                                    startDate |-> iv[1], endDate |-> iv[2]])
           overlapping == findOverlappingPeriods(periods, iv[1], iv[2], OrgOf(p), 0)
       IN  IF ~created.ok THEN Return(p, "createPeriod", id, 0, created.code)
           ELSE IF \E i \in overlapping : ~mapRowToPeriod(i, periods[i]).ok
             THEN Return(p, "createPeriod", id, 0, "DB_ERROR")
           ELSE IF overlapping # {}
             THEN calls' = [calls EXCEPT ![p] =
                              [IdleCall EXCEPT !.op = "createPeriod", !.pc = "done",
                                               !.jid = id, !.period = created.value,
                                               !.conflicts = overlapping,
                                               !.result = "BUSINESS_RULE_VIOLATION"]]
           ELSE Goto(p, [IdleCall EXCEPT !.op = "createPeriod", !.pc = "cp_save",
                                         !.jid = id, !.period = created.value])
  /\ budget' = budget - 1
  /\ UNCHANGED <<journals, journalLines, periods, clock, nextId>>

CreatePeriodSave(p) == PeriodSaveStep(p, "cp_save")

\* ---- PeriodService.updatePeriod ----
UpdatePeriodFindFrom(p, choices) ==
  /\ CanStart(p)
  /\ \E pid \in PeriodIds, u \in choices :
       LET found == findPeriodById(periods, pid, OrgOf(p))
           updated == PeriodUpdate(found.value, u)
       IN  IF ~found.ok THEN Return(p, "updatePeriod", pid, 0, found.code)
           ELSE IF found.code = "null"
             THEN Return(p, "updatePeriod", pid, 0, "ENTITY_NOT_FOUND")
           ELSE IF ~updated.ok THEN Return(p, "updatePeriod", pid, 0, updated.code)
           ELSE Goto(p, [IdleCall EXCEPT !.op = "updatePeriod", !.pc = "up_overlap",
                                         !.jid = pid, !.period = updated.value])
  /\ budget' = budget - 1
  /\ UNCHANGED <<journals, journalLines, periods, clock, nextId>>

UpdatePeriodFind(p) == UpdatePeriodFindFrom(p, PeriodUpdateChoices)

UpdatePeriodFindOverlapping(p) ==
  LET c == calls[p]
      overlapping == findOverlappingPeriods(periods, c.period.startDate,
                                            c.period.endDate, OrgOf(p), c.jid)
  IN
  /\ c.pc = "up_overlap"
  /\ IF \E i \in overlapping : ~mapRowToPeriod(i, periods[i]).ok
       THEN Return(p, c.op, c.jid, 0, "DB_ERROR")
     ELSE IF overlapping # {}
       THEN calls' = [calls EXCEPT ![p] =
                        [IdleCall EXCEPT !.op = c.op, !.pc = "done", !.jid = c.jid,
                                         !.period = c.period,
                                         !.conflicts = overlapping,
                                         !.result = "BUSINESS_RULE_VIOLATION"]]
       ELSE Goto(p, [c EXCEPT !.pc = "up_save"])
  /\ UNCHANGED <<journals, journalLines, periods, clock, nextId, budget>>

UpdatePeriodSave(p) == PeriodSaveStep(p, "up_save")

\* ---- HashService.verifyHashChain on a journal read by findById ----
VerifyHashChain(p) ==
  /\ CanStart(p)
  /\ \E id \in 1..(nextId - 1) :
       LET found == findById(journals, journalLines, id, OrgOf(p))
       IN  IF ~found.ok THEN Return(p, "verifyHashChain", id, 0, found.code)
           ELSE IF found.code = "null"
             THEN Return(p, "verifyHashChain", id, 0, "ENTITY_NOT_FOUND")
           ELSE IF ~verifyHashChain(found.value)
             THEN Return(p, "verifyHashChain", id, 0, "INVALID_HASH_CHAIN")
           ELSE Return(p, "verifyHashChain", id, 0, "ok")
  /\ budget' = budget - 1
  /\ UNCHANGED <<journals, journalLines, periods, clock, nextId>>

\* ---- HashService.verifyOrganizationHashChain ----
\* the report is kept in the call record: brokenChainAt in jid, totalJournals
\* in rid, invalidJournals in conflicts
VerifyOrganizationHashChain(p) ==
  /\ CanStart(p)
  /\ LET v == verifyOrganizationHashChain(journals, journalLines, OrgOf(p))
     IN  calls' = [calls EXCEPT ![p] =
                     [IdleCall EXCEPT
                        !.op = "verifyOrganizationHashChain", !.pc = "done",
                        !.jid = v.brokenChainAt, !.rid = v.totalJournals,
                        !.conflicts = v.invalidJournals,
                        !.result = IF ~v.ok THEN "DB_ERROR"
                                   ELSE IF v.isValid THEN "valid" ELSE "invalid"]]
  /\ budget' = budget - 1
  /\ UNCHANGED <<journals, journalLines, periods, clock, nextId>>

\* ---- Period.overlapsWith on a new period and a stored one ----
\* [start, end] of the new period: between the stored ones, touching period 2,
\* free, and across both
OverlapIntervals == {<<2, 3>>, <<4, 5>>, <<5, 6>>, <<1, 4>>}

OverlapsWith(p) ==
  /\ CanStart(p)
  /\ \E pid \in PeriodIds, iv \in OverlapIntervals :
       LET created == PeriodCreate([id |-> 0, organizationId |-> OrgOf(p), name |-> "n",
                                    startDate |-> iv[1], endDate |-> iv[2]])
           found == findPeriodById(periods, pid, OrgOf(p))
       IN  IF ~created.ok \/ ~found.ok \/ found.code = "null"
             THEN Return(p, "overlapsWith", pid, 0, "ENTITY_NOT_FOUND")
             ELSE calls' = [calls EXCEPT ![p] =
                              [IdleCall EXCEPT
                                 !.op = "overlapsWith", !.pc = "done", !.jid = pid,
                                 !.period = created.value,
                                 !.result = IF overlapsWith(created.value, found.value)
                                              THEN "true" ELSE "false"]]
  /\ budget' = budget - 1
  /\ UNCHANGED <<journals, journalLines, periods, clock, nextId>>

\* ---- PeriodRepository.delete ----
DeletePeriod(p) ==
  /\ CanStart(p)
  /\ \E pid \in PeriodIds :
       LET r == deletePeriod(periods, journals, pid, OrgOf(p))
       IN  /\ periods' = r.periods
           /\ Return(p, "deletePeriod", pid, 0, r.code)
  /\ budget' = budget - 1
  /\ UNCHANGED <<journals, journalLines, clock, nextId>>

\* ---- JournalService.getNextJournalNumber ----
NumberPrefix == << "P" >>

GetNextJournalNumber(p) ==
  /\ CanStart(p)
  /\ Return(p, "getNextJournalNumber", 0, 0,
            getNextJournalNumber(journals, OrgOf(p), NumberPrefix))
  /\ budget' = budget - 1
  /\ UNCHANGED <<journals, journalLines, periods, clock, nextId>>

\* ---- the clock ----
Tick ==
  /\ clock < MaxClock
  /\ clock' = clock + 1
  /\ UNCHANGED <<journals, journalLines, periods, nextId, budget, calls>>

\* ------------------------------------------------------------------------
\* Specifications
\* ------------------------------------------------------------------------
InitialPeriods ==
  (1 :> [organizationId |-> Org, name |-> "n", startDate |-> 1, endDate |-> 2,
         status |-> "open"])
    @@ (2 :> [organizationId |-> Org, name |-> "n", startDate |-> 3, endDate |-> 4,
             status |-> "open"])

NoJournals == [i \in {} |-> RowOf(NoJournal)]
NoLines == [i \in 1..MaxJournals |-> << >>]

\* the empty ledger with two open periods
Init ==
  /\ journals = NoJournals
  /\ journalLines = NoLines
  /\ periods = InitialPeriods
  /\ clock = 1
  /\ nextId = 1
  /\ budget = MaxCalls
  /\ calls = [p \in AllProcs |-> IdleCall]

\* the ledger after createDraft of journal 1 ("A", period 1) and of journal 2
\* ("A-REV", period 2, with an external uid)
DraftProps(id, pid, d, n, x) ==
  [NoJournal EXCEPT !.id = id, !.organizationId = Org, !.periodId = pid,
                    !.journalNumber = n, !.description = "d", !.postingDate = d,
                    !.currency = "EUR", !.lines = LinesOf("bal"), !.extUid = x,
                    !.createdBy = User]

TwoDrafts ==
  LET first == save(NoJournals, NoLines, InitialPeriods,
                    JournalCreate(DraftProps(1, 1, 2, "A", "")).value)
  IN  save(first.journals, first.journalLines, InitialPeriods,
           JournalCreate(DraftProps(2, 2, 3, "A-REV", "x")).value)

InitDrafts ==
  /\ journals = TwoDrafts.journals
  /\ journalLines = TwoDrafts.journalLines
  /\ periods = InitialPeriods
  /\ clock = 1
  /\ nextId = 3
  /\ budget = MaxCalls
  /\ calls = [p \in AllProcs |-> IdleCall]

CreateDraftStep(p) ==
  \/ CreateDraftValidatePeriod(p)
  \/ CreateDraftCheckNumber(p)
  \/ CreateDraftCheckExtUid(p)
  \/ CreateDraftSave(p)

UpdateDraftStep(p) ==
  \/ UpdateDraftFind(p)
  \/ UpdateDraftCheckPeriod(p)
  \/ UpdateDraftCheckNumber(p)
  \/ UpdateDraftSave(p)

DeleteDraftStep(p) ==
  \/ DeleteDraftFind(p)
  \/ DeleteDraftDelete(p)

PostStep(p) ==
  \/ PostFind(p)
  \/ PostCheckNumber(p)
  \/ PostCheckExtUid(p)
  \/ PostCheckPeriod(p)
  \/ PostGetPreviousHash(p)
  \/ PostSave(p)

ReverseStep(p) ==
  \/ ReverseFind(p)
  \/ ReverseCheckPeriod(p)
  \/ ReverseGetPreviousHash(p)
  \/ ReverseSaveOriginal(p)
  \/ ReverseSaveReversal(p)

PeriodStep(p) ==
  \/ PeriodFind(p)
  \/ PeriodSave(p)

CreatePeriodStep(p) ==
  \/ CreatePeriodFindOverlapping(p)
  \/ CreatePeriodSave(p)

UpdatePeriodStep(p) ==
  \/ UpdatePeriodFind(p)
  \/ UpdatePeriodFindOverlapping(p)
  \/ UpdatePeriodSave(p)

\* two request handlers working on existing journals and periods; they
\* interleave at repository calls
Next ==
  \/ Tick
  \/ \E p \in Procs : UpdateDraftStep(p)
  \/ \E p \in Procs : DeleteDraftStep(p)
  \/ \E p \in Procs : PostStep(p)
  \/ \E p \in Procs : ReverseStep(p)
  \/ \E p \in Procs : PeriodStep(p)

Spec == InitDrafts /\ [][Next]_vars

\* one request at a time, from the empty ledger
NextSeq ==
  \/ Tick
  \/ CreateDraftStep(1)
  \/ UpdateDraftStep(1)
  \/ DeleteDraftStep(1)
  \/ PostStep(1)
  \/ ReverseStep(1)
  \/ PeriodStep(1)

SpecSeq == Init /\ [][NextSeq]_vars

\* two concurrent posts, with a third handler deleting drafts
NextFork ==
  \/ Tick
  \/ \E p \in Procs : PostStep(p)
  \/ \E p \in HelperProcs : DeleteDraftStep(p)

SpecFork == InitDrafts /\ [][NextFork]_vars

\* two request handlers working on the periods of a ledger that holds two
\* draft journals
NextPeriod ==
  \/ \E p \in Procs : PeriodStep(p)
  \/ \E p \in Procs : CreatePeriodStep(p)
  \/ \E p \in Procs : UpdatePeriodStep(p)

SpecPeriod == InitDrafts /\ [][NextPeriod]_vars

\* the period calls one at a time
NextPeriodSeq ==
  \/ PeriodStep(1)
  \/ CreatePeriodStep(1)
  \/ UpdatePeriodStep(1)

SpecPeriodSeq == InitDrafts /\ [][NextPeriodSeq]_vars

\* a debit split over two credits
SplitLines ==
  << MkLine(1, "1000", "cash", 2, 0), MkLine(2, "4000", "rev", 0, 1),
     MkLine(3, "4100", "fee", 0, 1) >>

\* updateDraft replacing the lines: by an unbalanced pair, by the split, and by
\* an unbalanced pair together with a new number
LineUpdateChoices ==
  {[NoUpdates EXCEPT !.lines = LinesOf("unbal")],
   [NoUpdates EXCEPT !.lines = SplitLines],
   [NoUpdates EXCEPT !.lines = LinesOf("unbal"), !.journalNumber = "B"]}

UpdateDraftLinesFind(p) == UpdateDraftFindFrom(p, LineUpdateChoices)

\* a pair numbered 1 and 3, and a pair numbered 1 twice
GapLines ==
  << MkLine(1, "1000", "cash", 1, 0), MkLine(3, "4000", "rev", 0, 1) >>

DuplicateLines ==
  << MkLine(1, "1000", "cash", 1, 0), MkLine(1, "4000", "rev", 0, 1) >>

\* 200.0000 of a foreign currency booked at `booked`, against revenue
ExchangeLines(rate, booked) ==
  << [MkLine(1, "1000", "fx", booked, 0) EXCEPT
        !.originalCurrency = "USD", !.originalAmount = 200 * AmountOne,
        !.exchangeRate = rate],
     MkLine(2, "4000", "rev", 0, booked) >>

\* the lines a caller may hand in: badly numbered ones, the split, and the
\* foreign amount at rates 0.0000015 and 0.0000004, which the column
\* exchange_rate rounds to 0.000002 and 0.000000
RuledLineChoices ==
  {GapLines, DuplicateLines, SplitLines,
   ExchangeLines(15, 3), ExchangeLines(15, 2), ExchangeLines(4, 1)}

CreateDraftRuledValidatePeriod(p) == CreateDraftValidatePeriodFrom(p, RuledLineChoices)

UpdateDraftRuledFind(p) ==
  UpdateDraftFindFrom(p, {[NoUpdates EXCEPT !.lines = lines] : lines \in RuledLineChoices})

\* the ledger after createDraft of journal 1 ("A", period 1), with or without
\* an external uid
OneDraft(extUid) ==
  save(NoJournals, NoLines, InitialPeriods,
       JournalCreate(DraftProps(1, 1, 2, "A", extUid)).value)

InitOneDraft ==
  /\ \E extUid \in ExtUids :
       /\ journals = OneDraft(extUid).journals
       /\ journalLines = OneDraft(extUid).journalLines
  /\ periods = InitialPeriods
  /\ clock = 1
  /\ nextId = 2
  /\ budget = MaxReverseCalls
  /\ calls = [p \in AllProcs |-> IdleCall]

\* two request handlers renumbering, posting and reversing one journal
NextReverse ==
  \/ \E p \in Procs : UpdateDraftStep(p)
  \/ \E p \in Procs : PostStep(p)
  \/ \E p \in Procs : ReverseStep(p)

SpecReverse == InitOneDraft /\ [][NextReverse]_vars

\* the ledger after journal 1 ("A", period 1) was posted at the head of the
\* chain
OnePosted(lines) ==
  save(NoJournals, NoLines, InitialPeriods,
       JournalPost(JournalCreate([DraftProps(1, 1, 2, "A", "") EXCEPT !.lines = lines]).value,
                   User, "", 1).value)

InitOnePosted ==
  /\ \E lines \in {LinesOf("bal"), SplitLines} :
       /\ journals = OnePosted(lines).journals
       /\ journalLines = OnePosted(lines).journalLines
  /\ periods = InitialPeriods
  /\ clock = 1
  /\ nextId = 2
  /\ budget = MaxCalls
  /\ calls = [p \in AllProcs |-> IdleCall]

\* two request handlers reversing posted journals
NextMirror == \E p \in Procs : ReverseStep(p)

SpecMirror == InitOnePosted /\ [][NextMirror]_vars

\* two request handlers creating, renumbering, posting and reversing journals
NextUnique ==
  \/ \E p \in Procs : CreateDraftStep(p)
  \/ \E p \in Procs : UpdateDraftStep(p)
  \/ \E p \in Procs : PostStep(p)
  \/ \E p \in Procs : ReverseStep(p)

InitDraftsUnique ==
  /\ journals = TwoDrafts.journals
  /\ journalLines = TwoDrafts.journalLines
  /\ periods = InitialPeriods
  /\ clock = 1
  /\ nextId = 3
  /\ budget = MaxUniqueCalls
  /\ calls = [p \in AllProcs |-> IdleCall]

SpecUnique == InitDraftsUnique /\ [][NextUnique]_vars

\* two request handlers creating, rewriting, posting and reversing journals,
\* line rewrites included
NextLines ==
  \/ \E p \in Procs : CreateDraftStep(p)
  \/ \E p \in Procs : UpdateDraftStep(p)
  \/ \E p \in Procs : UpdateDraftLinesFind(p)
  \/ \E p \in Procs : PostStep(p)
  \/ \E p \in Procs : ReverseStep(p)

\* the ledger after journal 1 ("A", period 1) was posted and journal 2
\* ("B", period 2) drafted, with or without an external uid
PostedAndDraft(extUid) ==
  LET first == OnePosted(LinesOf("bal"))
  IN  save(first.journals, first.journalLines, InitialPeriods,
           JournalCreate(DraftProps(2, 2, 3, "B", extUid)).value)

InitLines ==
  /\ \E extUid \in ExtUids :
       /\ journals = PostedAndDraft(extUid).journals
       /\ journalLines = PostedAndDraft(extUid).journalLines
  /\ periods = InitialPeriods
  /\ clock = 1
  /\ nextId = 3
  /\ budget = MaxLineCalls
  /\ calls = [p \in AllProcs |-> IdleCall]

SpecLines == InitLines /\ [][NextLines]_vars

\* the ledger after journal 1 ("A", period 1), holding the foreign amount at
\* the stored rate 0.000002, was posted and journal 2 ("B", period 2) drafted
PostedExchangeAndDraft ==
  LET first == OnePosted(ExchangeLines(20, 3))
  IN  save(first.journals, first.journalLines, InitialPeriods,
           JournalCreate(DraftProps(2, 2, 3, "B", "")).value)

InitLineRules ==
  /\ journals = PostedExchangeAndDraft.journals
  /\ journalLines = PostedExchangeAndDraft.journalLines
  /\ periods = InitialPeriods
  /\ clock = 1
  /\ nextId = 3
  /\ budget = MaxLineCalls
  /\ calls = [p \in AllProcs |-> IdleCall]

\* two request handlers creating drafts, replacing the lines of drafts and
\* reversing posted journals
NextLineRules ==
  \/ \E p \in Procs : CreateDraftRuledValidatePeriod(p)
  \/ \E p \in Procs : CreateDraftCheckNumber(p)
  \/ \E p \in Procs : CreateDraftCheckExtUid(p)
  \/ \E p \in Procs : CreateDraftSave(p)
  \/ \E p \in Procs : UpdateDraftRuledFind(p)
  \/ \E p \in Procs : UpdateDraftSave(p)
  \/ \E p \in Procs : ReverseStep(p)

SpecLineRules == InitLineRules /\ [][NextLineRules]_vars

\* two request handlers creating drafts while periods are closed and reopened,
\* from the empty ledger
InitClosing ==
  /\ journals = NoJournals
  /\ journalLines = NoLines
  /\ periods = InitialPeriods
  /\ clock = 1
  /\ nextId = 1
  /\ budget = MaxUniqueCalls
  /\ calls = [p \in AllProcs |-> IdleCall]

NextClosing ==
  \/ \E p \in Procs : CreateDraftStep(p)
  \/ \E p \in Procs : PeriodStep(p)

SpecClosing == InitClosing /\ [][NextClosing]_vars

\* updates whose lines are given as an empty array: `updates.lines ?? this.lines`
\* keeps the empty array
EmptyLinesUpdate ==
  [journalNumber |-> "", description |-> "", postingDate |-> 0, lines |-> << >>,
   linesGiven |-> TRUE]

\* createDraft with no lines or with the split, updateDraft replacing the
\* lines by none or by the split
CreateDraftBareValidatePeriod(p) == CreateDraftValidatePeriodFrom(p, {<< >>, SplitLines})

UpdateDraftBareFind(p) ==
  UpdateDraftFindFrom(p, {EmptyLinesUpdate, [NoUpdates EXCEPT !.lines = SplitLines]})

\* two request handlers creating drafts and replacing the lines of drafts,
\* from the empty ledger
NextBare ==
  \/ \E p \in Procs : CreateDraftBareValidatePeriod(p)
  \/ \E p \in Procs : CreateDraftCheckNumber(p)
  \/ \E p \in Procs : CreateDraftCheckExtUid(p)
  \/ \E p \in Procs : CreateDraftSave(p)
  \/ \E p \in Procs : UpdateDraftBareFind(p)
  \/ \E p \in Procs : UpdateDraftSave(p)

SpecBare == InitClosing /\ [][NextBare]_vars

\* two organizations: period 1 and the draft "A" (with or without an external
\* uid) belong to the first, period 2 and the posted journal "B" to the second
TenantPeriods ==
  (1 :> [organizationId |-> Org, name |-> "n", startDate |-> 1, endDate |-> 2,
         status |-> "open"])
    @@ (2 :> [organizationId |-> OtherOrg, name |-> "n", startDate |-> 3,
             endDate |-> 4, status |-> "open"])

TenantLedger(extUid) ==
  LET first == save(NoJournals, NoLines, TenantPeriods,
                    JournalCreate(DraftProps(1, 1, 2, "A", extUid)).value)
      other == [DraftProps(2, 2, 3, "B", "") EXCEPT !.organizationId = OtherOrg]
  IN  save(first.journals, first.journalLines, TenantPeriods,
           JournalPost(JournalCreate(other).value, User, "", 1).value)

InitTenants ==
  /\ \E extUid \in ExtUids :
       /\ journals = TenantLedger(extUid).journals
       /\ journalLines = TenantLedger(extUid).journalLines
  /\ periods = TenantPeriods
  /\ clock = 1
  /\ nextId = 3
  /\ budget = MaxTenantCalls
  /\ calls = [p \in AllProcs |-> IdleCall]

\* every call of the ledger, by two handlers of the first organization and one
\* of the second
NextTenants ==
  \/ \E p \in Procs \cup TenantProcs : CreateDraftStep(p)
  \/ \E p \in Procs \cup TenantProcs : UpdateDraftStep(p)
  \/ \E p \in Procs \cup TenantProcs : DeleteDraftStep(p)
  \/ \E p \in Procs \cup TenantProcs : PostStep(p)
  \/ \E p \in Procs \cup TenantProcs : ReverseStep(p)
  \/ \E p \in Procs \cup TenantProcs : PeriodStep(p)
  \/ \E p \in Procs \cup TenantProcs : CreatePeriodStep(p)
  \/ \E p \in Procs \cup TenantProcs : UpdatePeriodStep(p)

SpecTenants == InitTenants /\ [][NextTenants]_vars

\* the ledger that holds drafts numbered `texts`, the ids in the order of the
\* numbers
RECURSIVE SortTexts(_)
SortTexts(texts) ==
  IF texts = {} THEN << >>
  ELSE LET last == LastNumber(texts)
       IN  SortTexts(texts \ {last}) \o << last >>

NumberedDrafts(texts) ==
  LET order == SortTexts(texts)
  IN  [i \in 1..Len(order) |->
         RowOf(JournalCreate(DraftProps(i, 1, 2, TextOf(order[i]), "")).value)]

InitNumbers ==
  /\ \E texts \in SUBSET StoredNumberChoices :
       /\ Cardinality(texts) <= MaxNumbered
       /\ journals = NumberedDrafts(texts)
       /\ journalLines = [i \in 1..MaxJournals |->
                            IF i <= Cardinality(texts) THEN LinesOf("bal") ELSE << >>]
       /\ nextId = Cardinality(texts) + 1
  /\ periods = InitialPeriods
  /\ clock = 1
  /\ budget = 1
  /\ calls = [p \in AllProcs |-> IdleCall]

\* one request for the next journal number
NextNumbers == GetNextJournalNumber(1)

SpecNumbers == InitNumbers /\ [][NextNumbers]_vars

\* two request handlers creating and deleting drafts and deleting periods
NextPeriodDelete ==
  \/ \E p \in Procs : CreateDraftStep(p)
  \/ \E p \in Procs : DeleteDraftStep(p)
  \/ \E p \in Procs : DeletePeriod(p)

SpecPeriodDelete == InitDraftsUnique /\ [][NextPeriodDelete]_vars

\* updatePeriod moving the end of a period: by a day, and to the first day
\* that makes period 2 longer than Period.create accepts
LongPeriodUpdateChoices ==
  {[NoPeriodUpdates EXCEPT !.endDate = 5],
   [NoPeriodUpdates EXCEPT !.endDate = InitialPeriods[2].startDate + MaxPeriodDays + 1]}

UpdatePeriodLongFind(p) == UpdatePeriodFindFrom(p, LongPeriodUpdateChoices)

\* two request handlers creating periods and moving the end of periods
NextPeriodLength ==
  \/ \E p \in Procs : CreatePeriodStep(p)
  \/ \E p \in Procs : UpdatePeriodLongFind(p)
  \/ \E p \in Procs : UpdatePeriodFindOverlapping(p)
  \/ \E p \in Procs : UpdatePeriodSave(p)

SpecPeriodLength == InitDraftsUnique /\ [][NextPeriodLength]_vars

\* two request handlers comparing new periods with the stored ones
NextOverlap == \E p \in Procs : OverlapsWith(p)

SpecOverlap == InitDraftsUnique /\ [][NextOverlap]_vars

\* hashed free-text fields; ":" is the field separator of the serialization
HashDescriptions == {"a", "a:b"}
HashReferences == {"", "c", "b:c"}

HashDraft(desc, ref, d) ==
  [DraftProps(1, 1, d, "A", "") EXCEPT !.description = desc, !.reference = ref]

\* every journal the field choices give, as Journal.post seals it at the head
\* of the chain
SealedJournals ==
  {JournalPost(JournalCreate(HashDraft(desc, ref, d)).value, User, "", 1).value :
     desc \in HashDescriptions, ref \in HashReferences, d \in {1, 2}}

\* a ledger holding one sealed journal whose description, reference and
\* posting date columns may have been rewritten since
InitHash ==
  /\ \E sealed \in SealedJournals, now \in SealedJournals :
       /\ journals = (1 :> [RowOf(now) EXCEPT !.hashSelf = sealed.hashSelf])
       /\ journalLines = [NoLines EXCEPT ![1] = sealed.lines]
  /\ periods = InitialPeriods
  /\ clock = 1
  /\ nextId = 2
  /\ budget = MaxCalls
  /\ calls = [p \in AllProcs |-> IdleCall]

NextHash == \E p \in Procs : VerifyHashChain(p)

SpecHash == InitHash /\ [][NextHash]_vars

\* what may have happened to the row of a sealed journal since it was posted:
\* nothing, its description rewritten, or its description rewritten and
\* hash_self recomputed over the new content
ChainTampers == {"kept", "rewritten", "resealed"}

Tampered(j, kind) ==
  IF kind = "kept" THEN j
  ELSE IF kind = "rewritten" THEN [j EXCEPT !.description = "e"]
  ELSE LET changed == [j EXCEPT !.description = "e"]
       IN  [changed EXCEPT
              !.hashSelf = generateWithPrevious(toHashData(changed), changed.hashPrev)]

\* three journals posted one after the other, each sealed over the hash_self
\* of the one before
ThreeSealed ==
  LET first == JournalPost(JournalCreate(DraftProps(1, 1, 2, "A", "")).value,
                           User, "", 1).value
      second == JournalPost(JournalCreate(DraftProps(2, 1, 2, "B", "")).value,
                            User, first.hashSelf, 2).value
      third == JournalPost(JournalCreate(DraftProps(3, 2, 3, "A-REV", "")).value,
                           User, second.hashSelf, 3).value
  IN  << first, second, third >>

InitChain ==
  /\ \E kinds \in [1..3 -> ChainTampers] :
       /\ journals = [i \in 1..3 |-> RowOf(Tampered(ThreeSealed[i], kinds[i]))]
       /\ journalLines = [i \in 1..MaxJournals |->
                            IF i <= 3 THEN ThreeSealed[i].lines ELSE << >>]
  /\ periods = InitialPeriods
  /\ clock = 1
  /\ nextId = 4
  /\ budget = MaxCalls
  /\ calls = [p \in AllProcs |-> IdleCall]

\* two request handlers verifying the chain of the organization
NextChain == \E p \in Procs : VerifyOrganizationHashChain(p)

SpecChain == InitChain /\ [][NextChain]_vars

\* ------------------------------------------------------------------------
\* Properties
\* ------------------------------------------------------------------------
Sealed(js) == {i \in DOMAIN js : js[i].status \in {"posted", "reversed"}}

Posted(js) == {i \in DOMAIN js : js[i].status = "posted"}

\* the stored journals that carry a seal, in chain order
SealedChain == SortChain(journals, Sealed(journals))

\* C1: with calls run one at a time, the posted and reversed journals in
\* (posted_at, journal_number) order are linked: the first has no hash_prev,
\* every later one has the hash_self of the one before it as hash_prev
C1_ChainLinked ==
  \A n \in 1..Len(SealedChain) :
    IF n = 1 THEN journals[SealedChain[n]].hashPrev = ""
    ELSE journals[SealedChain[n]].hashPrev = journals[SealedChain[n - 1]].hashSelf

PostPrecondition(id) ==
  /\ id \in DOMAIN journals
  /\ journals[id].status = "draft"
  /\ Len(journalLines[id]) > 0
  /\ SumDebit(journalLines[id]) = SumCredit(journalLines[id])
  /\ LineNumbersSequential(journalLines[id])
  /\ journals[id].periodId \in DOMAIN periods
  /\ periods[journals[id].periodId].status = "open"
  /\ ~UniqueViolation(journals, id, journals[id])

\* C3: post on a stored draft that meets the precondition succeeds; a step in
\* which a post in progress returns a failure therefore finds no such draft
C3_PostSucceeds ==
  [][\A p \in Procs :
       (/\ calls[p].pc \in {"po_number", "po_extuid", "po_period", "po_prevhash", "po_save"}
        /\ calls'[p].pc = "done"
        /\ calls'[p].result # "ok")
         => ~PostPrecondition(calls[p].jid)]_vars

FrozenFields == RowFields \ {"status", "reversalJournalId"}

HashInputs == {toHashData(j) : j \in SealedJournals}

Untampered ==
  \A i \in Sealed(journals) :
    LET m == mapRowsToJournal(i, journals[i], journalLines[i])
    IN  m.ok /\ verifyHashChain(m.value)

ReversedPair(o, r) ==
  /\ o \in DOMAIN journals
  /\ r \in DOMAIN journals
  /\ journals[o].status = "reversed"
  /\ journals[o].reversalJournalId = r
  /\ journals[r].status = "posted"

C11_PostingDateInPeriod ==
  \A i \in DOMAIN journals :
    /\ journals[i].periodId \in DOMAIN periods
    /\ periods[journals[i].periodId].startDate <= journals[i].postingDate
    /\ journals[i].postingDate <= periods[journals[i].periodId].endDate

\* maxReversalDays
MaxReversalDays == 365

\* a reversal date before the original's posting date, or more than a year
\* after it
ReversalDateOutOfRange(reversalDate, postingDate) ==
  \/ reversalDate < postingDate
  \/ reversalDate - postingDate > MaxReversalDays

Mirrors(ls, o, r) ==
  /\ Len(ls[r]) = Len(ls[o])
  /\ \A i \in 1..Len(ls[o]) :
       /\ ls[r][i].lineNumber = ls[o][i].lineNumber
       /\ ls[r][i].debitAmount = ls[o][i].creditAmount
       /\ ls[r][i].creditAmount = ls[o][i].debitAmount

C15_NoOverlappingPeriods ==
  \A i \in DOMAIN periods, k \in DOMAIN periods :
    (i # k /\ periods[i].organizationId = periods[k].organizationId)
      => \/ periods[i].endDate < periods[k].startDate
         \/ periods[k].endDate < periods[i].startDate

\* the stored periods of the organization, other than `self`, that share an
\* instant with the closed interval of `period`
SharingAnInstant(period, self) ==
  {i \in DOMAIN periods \ {self} :
     /\ periods[i].organizationId = period.organizationId
     /\ \E day \in period.startDate..period.endDate :
          periods[i].startDate <= day /\ day <= periods[i].endDate}

C17_ClosedIsTerminal ==
  [][\A i \in DOMAIN periods :
       periods[i].status = "closed"
         => /\ i \in DOMAIN periods'
            /\ periods'[i].status = "closed"
            /\ periods'[i].name = periods[i].name
            /\ periods'[i].startDate = periods[i].startDate
            /\ periods'[i].endDate = periods[i].endDate]_vars

\* the status a period call needs to find
RequiredStatus(op) == IF op \in {"startClosing", "updatePeriod"} THEN "open" ELSE "closing"

PeriodOps == {"startClosing", "close", "reopen", "updatePeriod"}

UnbalancedInput(c) ==
  \/ c.op = "createDraft" /\ c.pc # "done"
       /\ SumDebit(c.journal.lines) # SumCredit(c.journal.lines)
  \/ c.op = "updateDraft" /\ c.pc # "done" /\ c.updates.lines # << >>
       /\ SumDebit(c.updates.lines) # SumCredit(c.updates.lines)

\* the call stands at the last check before the aggregate is built, and the
\* ledger lets it pass
LastCheckPasses(c) ==
  \/ c.pc = "cd_number" /\ c.journal.extUid = ""
       /\ ~existsByJournalNumber(journals, c.journal.journalNumber, Org)
  \/ c.pc = "cd_extuid" /\ ~existsByExtUid(journals, c.journal.extUid, Org)
  \/ c.pc = "ud_number"
       /\ ~existsByJournalNumber(journals, c.updates.journalNumber, Org)

AllBalanced ==
  \A i \in DOMAIN journals : SumDebit(journalLines[i]) = SumCredit(journalLines[i])

NoOpenPeriod == \A pid \in PeriodIds : periods[pid].status \in {"closing", "closed"}

TenantView(js, ls, ps, o) ==
  [journalById |-> [id \in 1..MaxJournals |-> findById(js, ls, id, o)],
   numbers |-> {n \in Numbers \cup NewNumbers : existsByJournalNumber(js, n, o)},
   extUids |-> {x \in ExtUids : existsByExtUid(js, x, o)},
   periodById |-> [pid \in PeriodIds \cup NewPeriodIds |-> findPeriodById(ps, pid, o)],
   periodByDate |-> [day \in 1..6 |-> findByDate(ps, day, o)],
   previousHash |-> getPreviousHash(js, ls, o),
   chain |-> verifyOrganizationHashChain(js, ls, o)]

NumberedWith(prefix) ==
  {chars \in {CharsOf(journals[i].journalNumber) :
                i \in {k \in DOMAIN journals : journals[k].organizationId = Org}} :
     /\ Like(chars, prefix \o << "-" >>)
     /\ MatchTrailingNumber(chars) = SubSeq(chars, Len(prefix) + 2, Len(chars))}

HighestSuffix(prefix) ==
  IF NumberedWith(prefix) = {} THEN 0
  ELSE LET values == {parseInt(MatchTrailingNumber(chars)) : chars \in NumberedWith(prefix)}
       IN  CHOOSE v \in values : \A w \in values : w <= v

\* C25: getNextJournalNumber(prefix) returns prefix-NNN, a number no stored
\* journal of the organization uses, NNN being one more than the highest
\* numeric suffix in use for the prefix (001 when none is), also when stored
\* numbers have more than three digits or end in -REV.
C25_NextNumberUnused ==
  \A p \in Procs :
    (calls[p].op = "getNextJournalNumber" /\ calls[p].pc = "done") =>
      /\ ~existsByJournalNumber(journals, calls[p].result, Org)
      /\ calls[p].result
           = TextOf(NumberPrefix \o << "-" >>
                      \o padStart(NumberToString(HighestSuffix(NumberPrefix) + 1), 3, "0"))

\* verifyJournal succeeds on the stored journal i
VerifiesAsStored(js, ls, i) ==
  LET m == mapRowsToJournal(i, js[i], ls[i])
  IN  m.ok /\ verifyHashChain(m.value)

C28_ReferencedPeriodKept ==
  /\ [](\A i \in DOMAIN journals : journals[i].periodId \in DOMAIN periods)
  /\ [][\A p \in Procs :
          (calls'[p] # calls[p] /\ calls'[p].op = "deletePeriod") =>
            \A pid \in DOMAIN periods :
              (\E i \in DOMAIN journals : journals[i].periodId = pid) =>
                /\ pid \in DOMAIN periods'
                /\ periods'[pid] = periods[pid]
                /\ calls'[p].jid = pid => calls'[p].result # "ok"]_vars

\* one period delete was refused for a period in use, another went through
\* once the period had lost its journal
C28_Witness ==
  /\ \E p \in Procs : calls[p].op = "deletePeriod" /\ calls[p].result = "DB_ERROR"
  /\ \E p \in Procs : /\ calls[p].op = "deletePeriod" /\ calls[p].result = "ok"
                       /\ calls[p].jid \notin DOMAIN periods
  /\ DOMAIN journals # {}

LineNumbersOf(i) == {journalLines[i][k].lineNumber : k \in 1..Len(journalLines[i])}

StoredDifference(l) ==
  LET difference == l.originalAmount * l.exchangeRate - getAmount(l) * RateOne
  IN  IF difference < 0 THEN -difference ELSE difference

CanonicalChain == SortChain(journals, {i \in Sealed(journals) : journals[i].organizationId = Org})

PositionIn(chain, id) == CHOOSE k \in 1..Len(chain) : chain[k] = id

\* the hash_prev of journal b is not the hash_self of the journal before it
LinkBroken(b) ==
  LET k == PositionIn(CanonicalChain, b)
  IN  IF k = 1 THEN journals[b].hashPrev # ""
      ELSE journals[b].hashPrev # journals[CanonicalChain[k - 1]].hashSelf

FailingJournals ==
  {i \in Sealed(journals) :
     /\ journals[i].organizationId = Org
     /\ ~verifyHashChain(mapRowsToJournal(i, journals[i], journalLines[i]).value)}

SaveLabels == {"cd_save", "ud_save", "po_save", "rv_save_original", "rv_save_reversal"}

\* the journal the save of call c is addressed to
SaveTarget(c) == IF c.pc = "rv_save_reversal" THEN c.reversal.id ELSE c.journal.id

C36_StoredPeriodsLoadable ==
  \A i \in DOMAIN periods :
    /\ periods[i].startDate < periods[i].endDate
    /\ periods[i].endDate - periods[i].startDate <= MaxPeriodDays
    /\ mapRowToPeriod(i, periods[i]).ok

\* C37: Period.overlapsWith answers true exactly when the closed intervals
\* of the two periods intersect, as the test start <= other.end and
\* other.start <= end of findOverlappingPeriods does, also for periods that
\* touch in one day.
C37_OverlapsWithAgrees ==
  \A p \in Procs :
    calls[p].op = "overlapsWith" /\ calls[p].result \in {"true", "false"}
      => ((calls[p].result = "true")
            <=> calls[p].jid \in findOverlappingPeriods(
                  periods, calls[p].period.startDate, calls[p].period.endDate, Org, 0))

====
